---- MODULE Spec2Model ----
(***************************************************************************)
(* A model of the user store (MockUserRepository), the User entity and the *)
(* Create / Update / Delete use cases of golang-clean-architecture.        *)
(*                                                                         *)
(* Go pointers are addresses of a heap: the store's maps hold addresses,   *)
(* a copy (userCopy := *user; &userCopy) is a fresh address with the same  *)
(* value, and an alias is the same address.  Strings are sequences of      *)
(* one-character strings, so that TrimSpace and ToLower are computed.      *)
(* Every repository call is one atomic step; a use case is the sequence of *)
(* its repository calls and of its local steps, so that executions of      *)
(* several callers interleave between the calls.                           *)
(***************************************************************************)
EXTENDS Integers, Sequences, FiniteSets, TLC

(***************************************************************************)
(* Bounds of the model.                                                    *)
(***************************************************************************)
\* identifiers the allocator may hand out: Create is disabled once nextID > MaxID
MaxID == 2
\* the clock (time.Now) runs from 0 to MaxTime
MaxTime == 1
\* values a direct caller of the repository holds at a time
MaxHeld == 2
\* the width of the model's int: Go's int wraps around at 64 bits, the
\* model's at IntBits bits
IntBits == 8

Procs == {"p1", "p2"}

NULL == 0

\* The addresses.  The repository allocates its records in StoreAddr, which
\* has room for one record per identifier and one more; each caller allocates
\* its own objects in its own block of MaxHeld addresses.
StoreAddr == 1 .. (MaxID + 1)
ProcIndex == [p \in Procs |-> IF p = "p1" THEN 0 ELSE 1]
ProcAddr(p) ==
    (MaxID + 2 + ProcIndex[p] * MaxHeld) .. (MaxID + 1 + (ProcIndex[p] + 1) * MaxHeld)
Addr == StoreAddr \cup UNION {ProcAddr(p) : p \in Procs}

Range(f) == {f[x] : x \in DOMAIN f}

(***************************************************************************)
(* Strings.                                                                *)
(***************************************************************************)
Letters == <<"a", "b", "n", "o", "x">>
Capitals == <<"A", "B", "N", "O", "X">>

\* strings.ToLower, on one character
LowerChar(c) ==
    IF \E i \in 1..Len(Capitals) : Capitals[i] = c
    THEN Letters[CHOOSE i \in 1..Len(Capitals) : Capitals[i] = c]
    ELSE c

ToLower(s) == [i \in 1..Len(s) |-> LowerChar(s[i])]

RECURSIVE TrimLeft(_)
TrimLeft(s) == IF s # <<>> /\ Head(s) = " " THEN TrimLeft(Tail(s)) ELSE s

RECURSIVE TrimRight(_)
TrimRight(s) ==
    IF s # <<>> /\ s[Len(s)] = " " THEN TrimRight(SubSeq(s, 1, Len(s) - 1)) ELSE s

TrimSpace(s) == TrimRight(TrimLeft(s))

\* strings.Contains
Contains(s, sub) ==
    \E i \in 1..(Len(s) - Len(sub) + 1) : SubSeq(s, i, i + Len(sub) - 1) = sub

\* a string of n characters c
Repeat(c, n) == [i \in 1..n |-> c]

(***************************************************************************)
(* entities: validation, NewUser, UpdateUserProfile.                       *)
(***************************************************************************)
NoErr == "nil"

MaxEmailLen == 255
MinNameLen == 2
MaxNameLen == 100
MinPasswordLen == 6
MaxPasswordLen == 128

validateEmail(email) ==
    LET e == TrimSpace(email) IN
    IF e = <<>> THEN "email can't be empty"
    ELSE IF ~Contains(e, <<"@">>) THEN "invalid email"
    ELSE IF Len(e) > MaxEmailLen THEN "email too long"
    ELSE NoErr

\* the words of offensiveNameRegex, matched without regard to case
OffensiveWords ==
    { <<"f","u","c","k">>, <<"s","h","i","t">>, <<"d","a","m","n">>,
      <<"i","d","i","o","t">>, <<"s","t","u","p","i","d">>,
      <<"h","i","t","l","e","r">>, <<"c","u","n","t">> }

\* the characters validNameRegex accepts, among those the model's names use
ValidNameChars ==
    Range(Letters) \cup Range(Capitals) \cup
    {"c","d","e","f","h","i","k","l","m","p","r","s","t","u", " ", "-", "'", "."}

validateName(name) ==
    LET trimmedName == TrimSpace(name) IN
    IF trimmedName = <<>> THEN "empty name"
    ELSE IF Len(trimmedName) < MinNameLen THEN "brother nobody has such a short name"
    ELSE IF Len(trimmedName) > MaxNameLen THEN "brother nobody has such a long name"
    ELSE IF \E w \in OffensiveWords : Contains(ToLower(trimmedName), w)
         THEN "offensive name non approprie"
    ELSE IF \E i \in 1..Len(trimmedName) : trimmedName[i] \notin ValidNameChars
         THEN "nom contient des caracteres invalides"
    ELSE NoErr

validatePassword(password) ==
    IF password = <<>> THEN "mot de passe ne peut pas etre vide"
    ELSE IF Len(password) < MinPasswordLen THEN "mot de passe trop court (min 6 caracteres)"
    ELSE IF Len(password) > MaxPasswordLen THEN "mot de passe trop long (max 128 caracteres)"
    ELSE NoErr

\* the error NewUser returns (NoErr when it returns a user)
NewUserErr(email, name, password) ==
    IF validateEmail(email) # NoErr THEN validateEmail(email)
    ELSE IF validateName(name) # NoErr THEN validateName(name)
    ELSE validatePassword(password)

\* the user NewUser returns when all three validations pass
NewUser(email, name, password, t) ==
    [ID |-> 0,
     Email |-> ToLower(TrimSpace(email)),
     Name |-> TrimSpace(name),
     Password |-> password,
     Created |-> t,
     Updated |-> t]

\* the error UpdateUserProfile returns
UpdateUserProfileErr(name, email) ==
    IF validateName(name) # NoErr THEN validateName(name) ELSE validateEmail(email)

\* a variant of UpdateUserProfile that leaves Updated as it was
UpdateUserProfileStale(u, name, email, t) ==
    [u EXCEPT !.Name = TrimSpace(name),
              !.Email = ToLower(TrimSpace(email))]

\* the user after a successful UpdateUserProfile
UpdateUserProfile(u, name, email, t) ==
    [u EXCEPT !.Name = TrimSpace(name),
              !.Email = ToLower(TrimSpace(email)),
              !.Updated = t]

\* a variant of the method that assigns the name as soon as the name is
\* validated, before the email is
UpdateUserProfileEarly(u, name, email, t) ==
    IF validateName(name) # NoErr
    THEN [err |-> validateName(name), user |-> u]
    ELSE IF validateEmail(email) # NoErr
    THEN [err |-> validateEmail(email),
          user |-> [u EXCEPT !.Name = TrimSpace(name)]]
    ELSE [err |-> NoErr, user |-> UpdateUserProfile(u, name, email, t)]

\* the method UpdateUserProfile as a whole: the error it returns and the
\* user it leaves
UpdateUserProfileResult(u, name, email, t) ==
    IF validateName(name) # NoErr
    THEN [err |-> validateName(name), user |-> u]
    ELSE IF validateEmail(email) # NoErr
    THEN [err |-> validateEmail(email), user |-> u]
    ELSE [err |-> NoErr, user |-> UpdateUserProfile(u, name, email, t)]

\* the error ChangePassword returns
ChangePasswordErr(newPassword) == validatePassword(newPassword)

\* the user after a successful ChangePassword
ChangePassword(u, newPassword, t) ==
    [u EXCEPT !.Password = newPassword, !.Updated = t]

\* the method ChangePassword as a whole: the error it returns and the user
\* it leaves
ChangePasswordResult(u, newPassword, t) ==
    IF validatePassword(newPassword) # NoErr
    THEN [err |-> validatePassword(newPassword), user |-> u]
    ELSE [err |-> NoErr, user |-> ChangePassword(u, newPassword, t)]

(***************************************************************************)
(* The inputs of the requests.                                             *)
(***************************************************************************)
EmailA == <<"a", "@", "x">>
EmailAUpper == <<" ", "A", "@", "X">>
EmailB == <<"b", "@", "x">>
EmailBad == <<"a", "x">>
RawEmails == {EmailA, EmailAUpper, EmailB, EmailBad}
\* the emails of the requests of interleaved callers
ConcEmails == {EmailA, EmailB}

NameAnn == <<"A", "n", "n">>
NameBo == <<" ", "B", "o", " ">>
NameShort == <<"x">>
RawNames == {NameAnn, NameBo, NameShort}

PasswordOK == <<"s", "e", "c", "r", "e", "t">>
PasswordShort == <<"p", "w">>
RawPasswords == {PasswordOK, PasswordShort}
\* the new password of a ChangePassword
PasswordNew == <<"n", "e", "w", "p", "w", "d">>

IDs == 1 .. MaxID

(***************************************************************************)
(* State.                                                                  *)
(***************************************************************************)
VARIABLES
    users,      \* MockUserRepository.users: id -> address of the stored record
    emails,     \* MockUserRepository.emails: email -> address of the stored record
    nextID,     \* MockUserRepository.nextID
    mutex,      \* MockUserRepository.mutex: the caller that holds its Lock
    heap,       \* address -> User value, for every live object
    now,        \* the clock time.Now reads
    pc,         \* where each caller is in its use case
    req,        \* the request of the use case each caller executes
    user,       \* the use case's variable user (address or NULL)
    created,    \* CreateUserUseCase.Execute's createdUser (address or NULL)
    held,       \* what a direct caller of the repository holds: the address
                \* (ptr) and the call that returned it (from)
    result,     \* what the finished use case returns: response and error
    pending,    \* createdUser of the welcome-mail goroutines not yet run
    sent        \* ids whose welcome mail SendWelcomeEmail delivered

vars == <<users, emails, nextID, mutex, heap, now, pc, req, user, created, held,
          result, pending, sent>>

store == <<users, emails, nextID, mutex>>
locals == <<pc, req, user, created, result>>

\* the mutex when no caller holds it
NoHolder == "none"

NoReq == [op |-> "none", id |-> 0, email |-> <<>>, name |-> <<>>, password |-> <<>>]
NoResult == [err |-> NoErr, resp |-> <<>>]

\* a fresh allocation in region R: its first free address
Alloc(h, R) == CHOOSE a \in R \ DOMAIN h : \A b \in R \ DOMAIN h : a <= b

\* the objects some variable still refers to; the others are garbage
Roots(us, em, usr, crt, hld, pend) ==
    Range(us) \cup Range(em) \cup Range(usr) \cup Range(crt)
        \cup UNION {{x.ptr : x \in Range(hld[p])} : p \in Procs} \cup pend

Collect(h, roots) == [a \in (DOMAIN h) \cap roots |-> h[a]]

(***************************************************************************)
(* MockUserRepository.  Each operation is an operator from the state it    *)
(* reads to the values it returns and the state it leaves.                 *)
(***************************************************************************)
ErrEmailUsed == "email deja utilise"
ErrUserNotFound == "user not found"

\* a variant of Create that takes the number of stored records, plus one, as
\* the new id instead of the allocator's value
CreateReusingID(h, us, em, nid, cand) ==
    IF h[cand].Email \in DOMAIN em
    THEN [err |-> ErrEmailUsed, ptr |-> NULL, heap |-> h,
          users |-> us, emails |-> em, nextID |-> nid]
    ELSE LET id == Cardinality(DOMAIN us) + 1
             h1 == [h EXCEPT ![cand].ID = id]
             userCopy == Alloc(h1, StoreAddr)
             h2 == (userCopy :> h1[cand]) @@ h1
         IN [err |-> NoErr, ptr |-> userCopy, heap |-> h2,
             users |-> (id :> userCopy) @@ us,
             emails |-> (h1[cand].Email :> userCopy) @@ em,
             nextID |-> id + 1]

\* a variant that takes the next id before it looks at the email index
CreateTakingIDFirst(h, us, em, nid, cand) ==
    LET h1 == [h EXCEPT ![cand].ID = nid] IN
    IF h[cand].Email \in DOMAIN em
    THEN [err |-> ErrEmailUsed, ptr |-> NULL, heap |-> h1,
          users |-> us, emails |-> em, nextID |-> nid + 1]
    ELSE LET userCopy == Alloc(h1, StoreAddr)
             h2 == (userCopy :> h1[cand]) @@ h1
         IN [err |-> NoErr, ptr |-> userCopy, heap |-> h2,
             users |-> (nid :> userCopy) @@ us,
             emails |-> (h1[cand].Email :> userCopy) @@ em,
             nextID |-> nid + 1]

\* Create: the duplicate check on the email index, the id written into the
\* caller's candidate, the private copy entered under both indexes, and the
\* address of that same copy returned.
Create(h, us, em, nid, cand) ==
    IF h[cand].Email \in DOMAIN em
    THEN [err |-> ErrEmailUsed, ptr |-> NULL, heap |-> h,
          users |-> us, emails |-> em, nextID |-> nid]
    ELSE LET h1 == [h EXCEPT ![cand].ID = nid]
             userCopy == Alloc(h1, StoreAddr)
             h2 == (userCopy :> h1[cand]) @@ h1
         IN [err |-> NoErr, ptr |-> userCopy, heap |-> h2,
             users |-> (nid :> userCopy) @@ us,
             emails |-> (h1[cand].Email :> userCopy) @@ em,
             nextID |-> nid + 1]

\* the variant the source warns against: the stored pointer itself is returned
GetByIDAliased(h, us, id, R) ==
    IF id \notin DOMAIN us
    THEN [err |-> ErrUserNotFound, ptr |-> NULL, heap |-> h]
    ELSE [err |-> NoErr, ptr |-> us[id], heap |-> h]

\* a variant of GetByID that clears the password in the stored record, not
\* in the copy it returns
GetByIDScrubbing(h, us, id, R) ==
    IF id \notin DOMAIN us
    THEN [err |-> ErrUserNotFound, ptr |-> NULL, heap |-> h]
    ELSE LET userCopy == Alloc(h, R)
             h1 == [h EXCEPT ![us[id]].Password = <<>>]
         IN [err |-> NoErr, ptr |-> userCopy, heap |-> (userCopy :> h1[us[id]]) @@ h1]

\* GetByID: a copy of the stored record at a fresh address of the caller (R)
GetByID(h, us, id, R) ==
    IF id \notin DOMAIN us
    THEN [err |-> ErrUserNotFound, ptr |-> NULL, heap |-> h]
    ELSE LET userCopy == Alloc(h, R)
         IN [err |-> NoErr, ptr |-> userCopy, heap |-> (userCopy :> h[us[id]]) @@ h]

\* List: a copy of every stored record, each at a fresh address, in the order
\* seq of the ids (Go ranges over a map in no fixed order)
RECURSIVE List(_, _, _, _)
List(h, us, seq, R) ==
    IF seq = <<>>
    THEN [ptrs |-> <<>>, heap |-> h]
    ELSE LET userCopy == Alloc(h, R)
             rest == List((userCopy :> h[us[Head(seq)]]) @@ h, us, Tail(seq), R)
         IN [ptrs |-> <<userCopy>> \o rest.ptrs, heap |-> rest.heap]

\* List(limit, offset): of the records in the order seq of the range over the
\* map, those after the first offset, at most limit of them, as copies
ListPage(h, us, seq, limit, offset, R) ==
    LET last == IF offset + limit < Len(seq) THEN offset + limit ELSE Len(seq)
    IN List(h, us, SubSeq(seq, offset + 1, last), R)

\* the orders in which a range over the map may visit the ids
Orders(S) ==
    {seq \in [1..Cardinality(S) -> S] : \A i, j \in DOMAIN seq : i # j => seq[i] # seq[j]}

\* a variant of the assignments that takes Updated from the caller's value
\* instead of the clock
UpdateInPlaceFromCaller(existing, u, t) ==
    [existing EXCEPT !.Name = u.Name, !.Email = u.Email, !.Updated = u.Updated]

\* the in-place assignments of Update to the stored record
UpdateInPlace(existing, u, t) ==
    [existing EXCEPT !.Name = u.Name, !.Email = u.Email, !.Updated = t]

\* Update: not found when the id is absent, else the stored record is
\* assigned field by field at the address it already has
Update(h, us, u, t) ==
    IF h[u].ID \notin DOMAIN us
    THEN [err |-> ErrUserNotFound, heap |-> h, users |-> us]
    ELSE LET existing == us[h[u].ID]
         IN [err |-> NoErr,
             heap |-> [h EXCEPT ![existing] = UpdateInPlace(h[existing], h[u], t)],
             users |-> us]

\* isEmailTaken: a lookup of the normalized email in the email index
isEmailTaken(em, email) == ToLower(TrimSpace(email)) \in DOMAIN em

\* GetByEmail: a copy of the record the email index holds for the normalized email
GetByEmail(h, em, email, R) ==
    LET key == ToLower(TrimSpace(email)) IN
    IF key \notin DOMAIN em
    THEN [err |-> ErrUserNotFound, ptr |-> NULL, heap |-> h]
    ELSE LET userCopy == Alloc(h, R)
         IN [err |-> NoErr, ptr |-> userCopy, heap |-> (userCopy :> h[em[key]]) @@ h]

\* a variant of DeleteById that removes the entry of the email index only
DeleteByIdKeepingRecord(h, us, em, id) ==
    IF id \notin DOMAIN us
    THEN [err |-> ErrUserNotFound, users |-> us, emails |-> em]
    ELSE [err |-> NoErr,
          users |-> us,
          emails |-> [e \in DOMAIN em \ {h[us[id]].Email} |-> em[e]]]

\* a variant of DeleteById that removes the record from the primary map only
DeleteByIdKeepingIndex(h, us, em, id) ==
    IF id \notin DOMAIN us
    THEN [err |-> ErrUserNotFound, users |-> us, emails |-> em]
    ELSE [err |-> NoErr,
          users |-> [i \in DOMAIN us \ {id} |-> us[i]],
          emails |-> em]

\* DeleteById: not found when absent, else the record leaves the primary map
\* and the email index loses the entry of the record's email
DeleteById(h, us, em, id) ==
    IF id \notin DOMAIN us
    THEN [err |-> ErrUserNotFound, users |-> us, emails |-> em]
    ELSE [err |-> NoErr,
          users |-> [i \in DOMAIN us \ {id} |-> us[i]],
          emails |-> [e \in DOMAIN em \ {h[us[id]].Email} |-> em[e]]]

\* Count: the number of live records
Count(us) == Cardinality(DOMAIN us)

(***************************************************************************)
(* The use cases.  The messages are the source's, without their accents.   *)
(***************************************************************************)
MsgEmailExists == "un utilisateur avec cet email existe deja"
MsgHashFailed == "erreur lors du traitement du mot de passe"
MsgCreateFailed == "erreur lors de la creation de l'utilisateur"
MsgNotFound == "utilisateur non trouve"
MsgEmailUsed == "cet email est deja utilise"
MsgUpdateFailed == "erreur lors de la mise a jour"
MsgDeleteFailed == "erreur lors de la suppression"

\* PasswordHasher.Hash: the digest of a password, never the password itself
Hash(password) == <<"#">> \o password

CreateUserResponse(u) ==
    [ID |-> u.ID, Email |-> u.Email, Name |-> u.Name, Created |-> u.Created]

UpdateUserResponse(u) ==
    [ID |-> u.ID, Email |-> u.Email, Name |-> u.Name, Updated |-> u.Updated]

Init ==
    /\ users = <<>>
    /\ emails = <<>>
    /\ nextID = 1
    /\ mutex = NoHolder
    /\ heap = <<>>
    /\ now = 0
    /\ pc = [p \in Procs |-> "idle"]
    /\ req = [p \in Procs |-> NoReq]
    /\ user = [p \in Procs |-> NULL]
    /\ created = [p \in Procs |-> NULL]
    /\ held = [p \in Procs |-> <<>>]
    /\ result = [p \in Procs |-> NoResult]
    /\ pending = {}
    /\ sent = {}

\* the use case of p returns err and resp
Finish(p, err, resp) ==
    /\ pc' = [pc EXCEPT ![p] = "done"]
    /\ result' = [result EXCEPT ![p] = [err |-> err, resp |-> resp]]

\* the use case of p goes on at step
Goto(p, step) ==
    /\ pc' = [pc EXCEPT ![p] = step]
    /\ UNCHANGED result

\* the heap after a step: h without the objects nothing refers to any more
HeapAfter(h) ==
    heap' = Collect(h, Roots(users', emails', user', created', held', pending'))

---------------------------------------------------------------------------
(* CreateUserUseCase.Execute(req), req = (email, name, password) *)

\* a variant of step 1 that goes on to NewUser whatever isEmailTaken returns
CreateCheckIgnored(p, email, name, password) ==
    /\ pc[p] = "idle"
    /\ held[p] = <<>>
    /\ req' = [req EXCEPT ![p] = [op |-> "create", id |-> 0, email |-> email,
                                  name |-> name, password |-> password]]
    /\ Goto(p, "c_new")
    /\ UNCHANGED <<store, heap, now, user, created, held, pending, sent>>

\* 1. isEmailTaken on the request's email
CreateCheck(p, email, name, password) ==
    /\ pc[p] = "idle"
    /\ held[p] = <<>>
    /\ req' = [req EXCEPT ![p] = [op |-> "create", id |-> 0, email |-> email,
                                  name |-> name, password |-> password]]
    /\ IF isEmailTaken(emails, email)
       THEN Finish(p, MsgEmailExists, <<>>)
       ELSE Goto(p, "c_new")
    /\ UNCHANGED <<store, heap, now, user, created, held, pending, sent>>

\* a variant of step 2 that goes on to the hashing whatever NewUser's
\* validations return
CreateNewUserUnchecked(p) ==
    /\ pc[p] = "c_new"
    /\ LET a == Alloc(heap, ProcAddr(p)) IN
        /\ Goto(p, "c_hash")
        /\ user' = [user EXCEPT ![p] = a]
        /\ heap' = (a :> NewUser(req[p].email, req[p].name, req[p].password, now))
                       @@ heap
    /\ UNCHANGED <<store, now, req, created, held, pending, sent>>

\* 2. entities.NewUser
CreateNewUser(p) ==
    /\ pc[p] = "c_new"
    /\ LET err == NewUserErr(req[p].email, req[p].name, req[p].password)
           a == Alloc(heap, ProcAddr(p))
       IN IF err # NoErr
          THEN /\ Finish(p, err, <<>>)
               /\ UNCHANGED <<user, heap>>
          ELSE /\ Goto(p, "c_hash")
               /\ user' = [user EXCEPT ![p] = a]
               /\ heap' = (a :> NewUser(req[p].email, req[p].name, req[p].password, now))
                              @@ heap
    /\ UNCHANGED <<store, now, req, created, held, pending, sent>>

\* a variant of step 3 that goes on without the assignment to user.Password
CreateHashSkipped(p) ==
    /\ pc[p] = "c_hash"
    /\ Goto(p, "c_store")
    /\ UNCHANGED <<store, heap, now, req, user, created, held, pending, sent>>

\* 3. passwordHash.Hash succeeds: user.Password = hashedPassword
CreateHash(p) ==
    /\ pc[p] = "c_hash"
    /\ Goto(p, "c_store")
    /\ heap' = [heap EXCEPT ![user[p]].Password = Hash(heap[user[p]].Password)]
    /\ UNCHANGED <<store, now, req, user, created, held, pending, sent>>

\* a variant in which the candidate is stored before the failure of the
\* hashing is returned
CreateHashFailsStored(p) ==
    /\ pc[p] = "c_hash"
    /\ LET r == Create(heap, users, emails, nextID, user[p]) IN
        /\ r.err = NoErr => nextID <= MaxID
        /\ users' = r.users
        /\ emails' = r.emails
        /\ nextID' = r.nextID
        /\ Finish(p, MsgHashFailed, <<>>)
        /\ UNCHANGED <<mutex, now, req, user, created, held, pending, sent>>
        /\ HeapAfter(r.heap)

\* 3. passwordHash.Hash fails
CreateHashFails(p) ==
    /\ pc[p] = "c_hash"
    /\ Finish(p, MsgHashFailed, <<>>)
    /\ UNCHANGED <<store, heap, now, req, user, created, held, pending, sent>>

\* 4. userRepo.Create
CreateStore(p) ==
    /\ pc[p] = "c_store"
    /\ LET r == Create(heap, users, emails, nextID, user[p]) IN
        /\ r.err = NoErr => nextID <= MaxID
        /\ users' = r.users
        /\ emails' = r.emails
        /\ nextID' = r.nextID
        /\ IF r.err # NoErr
           THEN /\ Finish(p, MsgCreateFailed, <<>>)
                /\ UNCHANGED created
           ELSE /\ Goto(p, "c_resp")
                /\ created' = [created EXCEPT ![p] = r.ptr]
        /\ UNCHANGED <<mutex, now, req, user, held, pending, sent>>
        /\ HeapAfter(r.heap)

\* a variant of steps 5 and 6 that starts the welcome-mail goroutine for
\* the candidate the use case built instead of the record the store returned
CreateRespondForCandidate(p) ==
    /\ pc[p] = "c_resp"
    /\ pending' = pending \cup {user[p]}
    /\ Finish(p, NoErr, <<CreateUserResponse(heap[created[p]])>>)
    /\ UNCHANGED <<store, heap, now, req, user, created, held, sent>>

\* 5. and 6. the welcome-mail goroutine is started and the response is built
CreateRespond(p) ==
    /\ pc[p] = "c_resp"
    /\ pending' = pending \cup {created[p]}
    /\ Finish(p, NoErr, <<CreateUserResponse(heap[created[p]])>>)
    /\ UNCHANGED <<store, heap, now, req, user, created, held, sent>>

\* the goroutine: SendWelcomeEmail delivers the mail
WelcomeEmailSent(a) ==
    /\ a \in pending
    /\ pending' = pending \ {a}
    /\ sent' = sent \cup {heap[a].ID}
    /\ UNCHANGED <<store, now, locals, held>>
    /\ HeapAfter(heap)

\* a variant of the goroutine that hands SendWelcomeEmail's error to the use
\* case that created the user
WelcomeEmailFailsReported(a) ==
    /\ a \in pending
    /\ pending' = pending \ {a}
    /\ result' = [p \in Procs |->
                    IF created[p] = a
                    THEN [err |-> "welcome email failed", resp |-> <<>>]
                    ELSE result[p]]
    /\ UNCHANGED <<store, now, pc, req, user, created, held, sent>>
    /\ HeapAfter(heap)

\* the goroutine: SendWelcomeEmail fails, which is only logged
WelcomeEmailFails(a) ==
    /\ a \in pending
    /\ pending' = pending \ {a}
    /\ UNCHANGED <<store, now, locals, held, sent>>
    /\ HeapAfter(heap)

---------------------------------------------------------------------------
(* UpdateUserUseCase.Execute(req), req = (id, email, name) *)

\* 1. userRepo.GetById, and the comparison of the emails
UpdateGet(p, id, email, name) ==
    /\ pc[p] = "idle"
    /\ held[p] = <<>>
    /\ req' = [req EXCEPT ![p] = [op |-> "update", id |-> id, email |-> email,
                                  name |-> name, password |-> <<>>]]
    /\ LET r == GetByID(heap, users, id, ProcAddr(p)) IN
       IF r.err # NoErr
       THEN /\ Finish(p, MsgNotFound, <<>>)
            /\ UNCHANGED <<user, heap>>
       ELSE /\ Goto(p, IF r.heap[r.ptr].Email # email THEN "u_check" ELSE "u_profile")
            /\ user' = [user EXCEPT ![p] = r.ptr]
            /\ heap' = r.heap
    /\ UNCHANGED <<store, now, created, held, pending, sent>>

\* 2. the email changes: isEmailTaken on the new email
UpdateCheck(p) ==
    /\ pc[p] = "u_check"
    /\ IF isEmailTaken(emails, req[p].email)
       THEN Finish(p, MsgEmailUsed, <<>>)
       ELSE Goto(p, "u_profile")
    /\ UNCHANGED <<store, heap, now, req, user, created, held, pending, sent>>

\* 3. user.UpdateUserProfile
UpdateProfile(p) ==
    /\ pc[p] = "u_profile"
    /\ LET r == UpdateUserProfileResult(heap[user[p]], req[p].name, req[p].email, now) IN
       /\ IF r.err # NoErr
          THEN Finish(p, r.err, <<>>)
          ELSE Goto(p, "u_store")
       /\ heap' = [heap EXCEPT ![user[p]] = r.user]
    /\ UNCHANGED <<store, now, req, user, created, held, pending, sent>>

\* 4. userRepo.Update, and the response built from user
UpdateStore(p) ==
    /\ pc[p] = "u_store"
    /\ LET r == Update(heap, users, user[p], now) IN
        /\ users' = r.users
        /\ IF r.err # NoErr
           THEN Finish(p, MsgUpdateFailed, <<>>)
           ELSE Finish(p, NoErr, <<UpdateUserResponse(heap[user[p]])>>)
        /\ UNCHANGED <<emails, nextID, mutex, now, req, user, created, held, pending, sent>>
        /\ HeapAfter(r.heap)

---------------------------------------------------------------------------
(* DeleteUserUseCase.Execute(id) *)

\* 1. userRepo.GetById, whose copy is dropped
DeleteGet(p, id) ==
    /\ pc[p] = "idle"
    /\ held[p] = <<>>
    /\ req' = [req EXCEPT ![p] = [op |-> "delete", id |-> id, email |-> <<>>,
                                  name |-> <<>>, password |-> <<>>]]
    /\ IF GetByID(heap, users, id, ProcAddr(p)).err # NoErr
       THEN Finish(p, MsgNotFound, <<>>)
       ELSE Goto(p, "d_delete")
    /\ UNCHANGED <<store, heap, now, user, created, held, pending, sent>>

\* 2. userRepo.DeleteById
DeleteStore(p) ==
    /\ pc[p] = "d_delete"
    /\ LET r == DeleteById(heap, users, emails, req[p].id) IN
        /\ users' = r.users
        /\ emails' = r.emails
        /\ IF r.err # NoErr
           THEN Finish(p, MsgDeleteFailed, <<>>)
           ELSE Finish(p, NoErr, <<>>)
        /\ UNCHANGED <<nextID, mutex, now, req, user, created, held, pending, sent>>
        /\ HeapAfter(heap)

\* the use case has returned: its variables go out of scope
Return(p) ==
    /\ pc[p] = "done"
    /\ pc' = [pc EXCEPT ![p] = "idle"]
    /\ req' = [req EXCEPT ![p] = NoReq]
    /\ user' = [user EXCEPT ![p] = NULL]
    /\ created' = [created EXCEPT ![p] = NULL]
    /\ result' = [result EXCEPT ![p] = NoResult]
    /\ UNCHANGED <<store, now, held, pending, sent>>
    /\ HeapAfter(heap)

---------------------------------------------------------------------------
(* A direct caller of the repository: demonstrateRepositoryMemory and the  *)
(* tests, which hold what the repository returns and assign to it.         *)

\* repo.GetByID(id), the copy kept
ClientGetByID(p, id) ==
    /\ pc[p] = "idle"
    /\ Len(held[p]) < MaxHeld
    /\ LET r == GetByID(heap, users, id, ProcAddr(p)) IN
        /\ r.err = NoErr
        /\ held' = [held EXCEPT ![p] = Append(@, [ptr |-> r.ptr, from |-> "GetByID"])]
        /\ heap' = r.heap
    /\ UNCHANGED <<store, now, locals, pending, sent>>

\* repo.GetByEmail(email), the copy kept
ClientGetByEmail(p, email) ==
    /\ pc[p] = "idle"
    /\ Len(held[p]) < MaxHeld
    /\ LET r == GetByEmail(heap, emails, email, ProcAddr(p)) IN
        /\ r.err = NoErr
        /\ held' = [held EXCEPT ![p] = Append(@, [ptr |-> r.ptr, from |-> "GetByEmail"])]
        /\ heap' = r.heap
    /\ UNCHANGED <<store, now, locals, pending, sent>>

\* users := repo.List()
ClientList(p) ==
    /\ pc[p] = "idle"
    /\ held[p] = <<>>
    /\ users # <<>>
    /\ Count(users) <= MaxHeld
    /\ \E seq \in Orders(DOMAIN users) :
        LET r == List(heap, users, seq, ProcAddr(p)) IN
        /\ held' = [held EXCEPT ![p] =
                      [i \in DOMAIN r.ptrs |-> [ptr |-> r.ptrs[i], from |-> "List"]]]
        /\ heap' = r.heap
    /\ UNCHANGED <<store, now, locals, pending, sent>>

\* users, _ := repo.List(ctx, limit, offset)
ClientListPage(p, limit, offset) ==
    /\ pc[p] = "idle"
    /\ held[p] = <<>>
    /\ users # <<>>
    /\ limit <= MaxHeld
    /\ \E seq \in Orders(DOMAIN users) :
        LET r == ListPage(heap, users, seq, limit, offset, ProcAddr(p)) IN
        /\ held' = [held EXCEPT ![p] =
                      [i \in DOMAIN r.ptrs |-> [ptr |-> r.ptrs[i], from |-> "List"]]]
        /\ heap' = r.heap
    /\ UNCHANGED <<store, now, locals, pending, sent>>

\* existingUser, _ := entities.NewUser(...); created, _ := repo.Create(ctx, existingUser)
ClientCreate(p, email, name, password) ==
    /\ pc[p] = "idle"
    /\ held[p] = <<>>
    /\ NewUserErr(email, name, password) = NoErr
    /\ LET existingUser == Alloc(heap, ProcAddr(p))
           h == (existingUser :> NewUser(email, name, password, now)) @@ heap
           r == Create(h, users, emails, nextID, existingUser)
       IN /\ r.err = NoErr => nextID <= MaxID
          /\ users' = r.users
          /\ emails' = r.emails
          /\ nextID' = r.nextID
          /\ held' = [held EXCEPT ![p] =
                        IF r.err = NoErr
                        THEN <<[ptr |-> existingUser, from |-> "NewUser"],
                               [ptr |-> r.ptr, from |-> "Create"]>>
                        ELSE <<[ptr |-> existingUser, from |-> "NewUser"]>>]
          /\ UNCHANGED <<mutex, now, locals, pending, sent>>
          /\ HeapAfter(r.heap)

\* users[i].Name = name
ClientMutate(p, i, name) ==
    /\ pc[p] = "idle"
    /\ i \in DOMAIN held[p]
    /\ heap[held[p][i].ptr].Name # name
    /\ heap' = [heap EXCEPT ![held[p][i].ptr].Name = name]
    /\ UNCHANGED <<store, now, locals, held, pending, sent>>

\* users[i].UpdateUserProfile(name, email), which succeeds
ClientUpdateProfile(p, i, name, email) ==
    /\ pc[p] = "idle"
    /\ i \in DOMAIN held[p]
    /\ UpdateUserProfileErr(name, email) = NoErr
    /\ heap' = [heap EXCEPT ![held[p][i].ptr] = UpdateUserProfile(@, name, email, now)]
    /\ UNCHANGED <<store, now, locals, held, pending, sent>>

\* users[i].ChangePassword(newPassword), which succeeds
ClientChangePassword(p, i, newPassword) ==
    /\ pc[p] = "idle"
    /\ i \in DOMAIN held[p]
    /\ ChangePasswordErr(newPassword) = NoErr
    /\ heap[held[p][i].ptr].Password # newPassword
    /\ heap' = [heap EXCEPT ![held[p][i].ptr] = ChangePassword(@, newPassword, now)]
    /\ UNCHANGED <<store, now, locals, held, pending, sent>>

\* repo.Update(users[i])
ClientUpdate(p, i) ==
    /\ pc[p] = "idle"
    /\ i \in DOMAIN held[p]
    /\ LET r == Update(heap, users, held[p][i].ptr, now) IN
        /\ r.err = NoErr
        /\ users' = r.users
        /\ UNCHANGED <<emails, nextID, mutex, now, locals, held, pending, sent>>
        /\ HeapAfter(r.heap)

\* the caller's variables go out of scope
ClientDrop(p) ==
    /\ pc[p] = "idle"
    /\ held[p] # <<>>
    /\ held' = [held EXCEPT ![p] = <<>>]
    /\ UNCHANGED <<store, now, locals, pending, sent>>
    /\ HeapAfter(heap)

\* time passes
Tick ==
    /\ now < MaxTime
    /\ now' = now + 1
    /\ UNCHANGED <<store, heap, locals, held, pending, sent>>

---------------------------------------------------------------------------
(* The store's operations step by step, as callers that run at the same    *)
(* time see them: Create between its Lock and its deferred Unlock, GetByID *)
(* between its call and its return.                                        *)

\* defer m.mutex.Unlock(): the holder's return releases the mutex
Unlock(m, p) == IF m = p THEN NoHolder ELSE m

\* the steps of a caller that is inside a store operation
WriteSteps == {"s_check", "s_index"}
ReadSteps == {"g_read"}

\* the callers whose Create may still take an id
Creating == {q \in Procs : pc[q] \in {"c_new", "c_hash", "c_store", "s_check"}}

\* CreateUserUseCase.Execute on a valid request, 1.: isEmailTaken, a read of
\* the email index under the read lock
CreateBegin(p, email) ==
    /\ mutex = NoHolder
    /\ isEmailTaken(emails, email) \/ nextID + Cardinality(Creating) <= MaxID
    /\ CreateCheck(p, email, NameAnn, PasswordOK)

\* Create: m.mutex.Lock()
CreateLock(p) ==
    /\ pc[p] = "c_store"
    /\ mutex = NoHolder
    /\ mutex' = p
    /\ Goto(p, "s_check")
    /\ UNCHANGED <<users, emails, nextID, heap, now, req, user, created, held,
                   pending, sent>>

\* Create: the email is in the index; the error return, which unlocks, and
\* the use case's error
CreateDuplicate(p) ==
    /\ pc[p] = "s_check"
    /\ Create(heap, users, emails, nextID, user[p]).err # NoErr
    /\ mutex' = Unlock(mutex, p)
    /\ Finish(p, MsgCreateFailed, <<>>)
    /\ UNCHANGED <<users, emails, nextID, heap, now, req, user, created, held,
                   pending, sent>>

\* Create: the id, the copy and m.users[user.ID] = &userCopy
CreateInsertUser(p) ==
    /\ pc[p] = "s_check"
    /\ LET r == Create(heap, users, emails, nextID, user[p]) IN
        /\ r.err = NoErr
        /\ nextID <= MaxID
        /\ users' = r.users
        /\ nextID' = r.nextID
        /\ heap' = r.heap
    /\ Goto(p, "s_index")
    /\ UNCHANGED <<emails, mutex, now, req, user, created, held, pending, sent>>

\* Create: m.emails[user.Email] = &userCopy, and the return, which unlocks
CreateInsertEmail(p) ==
    /\ pc[p] = "s_index"
    /\ LET userCopy == users[heap[user[p]].ID] IN
        /\ emails' = (heap[userCopy].Email :> userCopy) @@ emails
        /\ created' = [created EXCEPT ![p] = userCopy]
    /\ mutex' = Unlock(mutex, p)
    /\ Goto(p, "c_resp")
    /\ UNCHANGED <<users, nextID, heap, now, req, user, held, pending, sent>>

\* repo.GetByID(id) is called
GetByIDCall(p, id) ==
    /\ pc[p] = "idle"
    /\ held[p] = <<>>
    /\ req' = [req EXCEPT ![p] = [op |-> "get", id |-> id, email |-> <<>>,
                                  name |-> <<>>, password |-> <<>>]]
    /\ Goto(p, "g_read")
    /\ UNCHANGED <<store, heap, now, user, created, held, pending, sent>>

\* GetByID reads m.users and returns the copy, which the caller reads
GetByIDReturn(p) ==
    /\ pc[p] = "g_read"
    /\ LET r == GetByID(heap, users, req[p].id, ProcAddr(p)) IN
       IF r.err # NoErr
       THEN Finish(p, ErrUserNotFound, <<>>)
       ELSE Finish(p, NoErr, <<r.heap[r.ptr]>>)
    /\ UNCHANGED <<store, heap, now, req, user, created, held, pending, sent>>

\* GetByID reads m.users, without any lock, while a Create assigns to it: a
\* data race, which the Go runtime may end with "fatal error: concurrent map
\* read and map write"; the process, and every caller with it, stops
ConcurrentMapAccess(p) ==
    /\ pc[p] = "g_read"
    /\ \E q \in Procs \ {p} :
          /\ pc[q] = "s_check"
          /\ Create(heap, users, emails, nextID, user[q]).err = NoErr
    /\ pc' = [q \in Procs |-> "fatal"]
    /\ UNCHANGED <<store, heap, now, req, user, created, held, result, pending, sent>>

---------------------------------------------------------------------------
(* ListUsersUseCase.Execute(req), req = (page, pageSize) *)

\* Go's int: two's complement of IntBits bits, whose arithmetic wraps around
MinInt == -(2 ^ (IntBits - 1))
MaxInt == 2 ^ (IntBits - 1) - 1
ToInt(x) == ((x - MinInt) % (2 ^ IntBits)) + MinInt
IntAdd(a, b) == ToInt(a + b)
IntSub(a, b) == ToInt(a - b)
IntMul(a, b) == ToInt(a * b)
\* a / b for b > 0: the quotient truncated toward zero
IntQuo(a, b) == IF a >= 0 THEN a \div b ELSE -((-a) \div b)

\* the pages and page sizes of the requests
ListPages == {0, 1, 2}
ListSizes == {0, 1, 2, MaxInt}

DefaultPageSize == 10

\* a variant of the DTO that copies every field of the user
GetUserResponseWhole(u) ==
    [ID |-> u.ID, Email |-> u.Email, Name |-> u.Name, Password |-> u.Password,
     Created |-> u.Created, Updated |-> u.Updated]

GetUserResponse(u) ==
    [ID |-> u.ID, Email |-> u.Email, Name |-> u.Name, Created |-> u.Created,
     Updated |-> u.Updated]

---------------------------------------------------------------------------
(* GetUserUseCase.ExecuteByID(id) and ExecuteByEmail(email) *)

\* what ExecuteByID returns on the store (h, us)
ExecuteByID(h, us, id, R) ==
    LET r == GetByID(h, us, id, R) IN
    IF r.err # NoErr
    THEN [err |-> MsgNotFound, resp |-> <<>>]
    ELSE [err |-> NoErr, resp |-> <<GetUserResponse(r.heap[r.ptr])>>]

\* what ExecuteByEmail returns on the store (h, em)
ExecuteByEmail(h, em, email, R) ==
    LET r == GetByEmail(h, em, email, R) IN
    IF r.err # NoErr
    THEN [err |-> MsgNotFound, resp |-> <<>>]
    ELSE [err |-> NoErr, resp |-> <<GetUserResponse(r.heap[r.ptr])>>]

GetByIDExecute(p, id) ==
    /\ pc[p] = "idle"
    /\ held[p] = <<>>
    /\ req' = [req EXCEPT ![p] = [op |-> "get_id", id |-> id, email |-> <<>>,
                                  name |-> <<>>, password |-> <<>>]]
    /\ pc' = [pc EXCEPT ![p] = "done"]
    /\ result' = [result EXCEPT ![p] = ExecuteByID(heap, users, id, ProcAddr(p))]
    /\ UNCHANGED <<store, heap, now, user, created, held, pending, sent>>

GetByEmailExecute(p, email) ==
    /\ pc[p] = "idle"
    /\ held[p] = <<>>
    /\ req' = [req EXCEPT ![p] = [op |-> "get_email", id |-> 0, email |-> email,
                                  name |-> <<>>, password |-> <<>>]]
    /\ pc' = [pc EXCEPT ![p] = "done"]
    /\ result' = [result EXCEPT ![p] = ExecuteByEmail(heap, emails, email, ProcAddr(p))]
    /\ UNCHANGED <<store, heap, now, user, created, held, pending, sent>>

---------------------------------------------------------------------------
(* ListUsersUseCase.Execute(req), continued *)

\* the defaults, the offset and userRepo.List(ctx, req.PageSize, offset)
ListGet(p, page, pageSize) ==
    /\ pc[p] = "idle"
    /\ held[p] = <<>>
    /\ LET Page == IF page = 0 THEN 1 ELSE page
           PageSize == IF pageSize = 0 THEN DefaultPageSize ELSE pageSize
           offset == IntMul(IntSub(Page, 1), PageSize)
       IN /\ req' = [req EXCEPT ![p] =
                       [op |-> "list", id |-> 0, email |-> <<>>, name |-> <<>>,
                        password |-> <<>>, page |-> Page, pageSize |-> PageSize]]
          /\ \E seq \in Orders(DOMAIN users) :
                LET r == ListPage(heap, users, seq, PageSize, offset, ProcAddr(p)) IN
                /\ held' = [held EXCEPT ![p] =
                              [i \in DOMAIN r.ptrs |-> [ptr |-> r.ptrs[i], from |-> "List"]]]
                /\ heap' = r.heap
    /\ Goto(p, "l_count")
    /\ UNCHANGED <<store, now, user, created, pending, sent>>

\* userRepo.Count, the DTOs, totalPages and the response
ListCount(p) ==
    /\ pc[p] = "l_count"
    /\ LET total == Count(users)
           totalPages ==
               IntQuo(IntSub(IntAdd(total, req[p].pageSize), 1), req[p].pageSize)
       IN Finish(p, NoErr,
                 <<[Users |-> [i \in DOMAIN held[p] |->
                                  GetUserResponse(heap[held[p][i].ptr])],
                    Total |-> total,
                    Page |-> req[p].page,
                    PageSize |-> req[p].pageSize,
                    TotalPages |-> totalPages]>>)
    /\ held' = [held EXCEPT ![p] = <<>>]
    /\ UNCHANGED <<store, now, req, user, created, pending, sent>>
    /\ HeapAfter(heap)

---------------------------------------------------------------------------
Callers == {"p1"}

\* the names a direct caller assigns
Names == {TrimSpace(n) : n \in {n \in RawNames : validateName(n) = NoErr}}

(* Spec: the use cases, executed one after the other by one caller on any  *)
(* request, and the welcome-mail goroutines beside them.                   *)
Next ==
    \/ \E p \in Callers, e \in RawEmails, n \in RawNames, w \in RawPasswords :
          CreateCheck(p, e, n, w)
    \/ \E p \in Callers : CreateNewUser(p)
    \/ \E p \in Callers : CreateHash(p)
    \/ \E p \in Callers : CreateHashFails(p)
    \/ \E p \in Callers : CreateStore(p)
    \/ \E p \in Callers : CreateRespond(p)
    \/ \E a \in Addr : WelcomeEmailSent(a)
    \/ \E a \in Addr : WelcomeEmailFails(a)
    \/ \E p \in Callers, id \in IDs, e \in RawEmails, n \in RawNames : UpdateGet(p, id, e, n)
    \/ \E p \in Callers : UpdateCheck(p)
    \/ \E p \in Callers : UpdateProfile(p)
    \/ \E p \in Callers : UpdateStore(p)
    \/ \E p \in Callers, id \in IDs : DeleteGet(p, id)
    \/ \E p \in Callers : DeleteStore(p)
    \/ \E p \in Callers : Return(p)

Spec == Init /\ [][Next]_vars

(* SpecRepo: a direct caller of the repository.                            *)
NextRepo ==
    \/ \E p \in Callers, id \in IDs : ClientGetByID(p, id)
    \/ \E p \in Callers, e \in RawEmails : ClientGetByEmail(p, e)
    \/ \E p \in Callers : ClientList(p)
    \/ \E p \in Callers, limit \in 1..MaxHeld, offset \in 0..MaxID :
          ClientListPage(p, limit, offset)
    \/ \E p \in Callers, e \in RawEmails, n \in RawNames, w \in RawPasswords :
          ClientCreate(p, e, n, w)
    \/ \E p \in Callers, i \in 1..MaxHeld, n \in Names : ClientMutate(p, i, n)
    \/ \E p \in Callers, i \in 1..MaxHeld : ClientUpdate(p, i)
    \/ \E p \in Callers : ClientDrop(p)

SpecRepo == Init /\ [][NextRepo]_vars

(* SpecClock: a direct caller of the repository and of the entity's        *)
(* methods, while time passes.                                             *)
NextClock ==
    \/ \E p \in Callers, e \in ConcEmails : ClientCreate(p, e, NameAnn, PasswordOK)
    \/ \E p \in Callers, id \in IDs : ClientGetByID(p, id)
    \/ \E p \in Callers :
          ClientUpdateProfile(p, 1, NameBo, heap[held[p][1].ptr].Email)
    \/ \E p \in Callers : ClientChangePassword(p, 1, PasswordNew)
    \/ \E p \in Callers, i \in 1..MaxHeld : ClientUpdate(p, i)
    \/ \E p \in Callers : ClientDrop(p)
    \/ Tick

SpecClock == Init /\ [][NextClock]_vars

(* SpecConc: two callers whose use cases interleave, on valid requests.    *)
NextConc ==
    \/ \E p \in Procs, e \in ConcEmails : CreateCheck(p, e, NameAnn, PasswordOK)
    \/ \E p \in Procs : CreateNewUser(p)
    \/ \E p \in Procs : CreateHash(p)
    \/ \E p \in Procs : CreateHashFails(p)
    \/ \E p \in Procs : CreateStore(p)
    \/ \E p \in Procs : CreateRespond(p)
    \/ \E a \in Addr : WelcomeEmailSent(a)
    \/ \E a \in Addr : WelcomeEmailFails(a)
    \/ \E p \in Procs, id \in IDs, e \in ConcEmails : UpdateGet(p, id, e, NameAnn)
    \/ \E p \in Procs : UpdateCheck(p)
    \/ \E p \in Procs : UpdateProfile(p)
    \/ \E p \in Procs : UpdateStore(p)
    \/ \E p \in Procs, id \in IDs : DeleteGet(p, id)
    \/ \E p \in Procs : DeleteStore(p)
    \/ \E p \in Procs : Return(p)

SpecConc == Init /\ [][NextConc]_vars

(* SpecLock: two callers inside the store's operations at the same time.   *)
NextLock ==
    \/ \E p \in Procs, e \in ConcEmails : CreateBegin(p, e)
    \/ \E p \in Procs : CreateNewUser(p)
    \/ \E p \in Procs : CreateHash(p)
    \/ \E p \in Procs : CreateHashFails(p)
    \/ \E p \in Procs : CreateLock(p)
    \/ \E p \in Procs : CreateDuplicate(p)
    \/ \E p \in Procs : CreateInsertUser(p)
    \/ \E p \in Procs : CreateInsertEmail(p)
    \/ \E p \in Procs : CreateRespond(p)
    \/ \E a \in Addr : WelcomeEmailSent(a)
    \/ \E a \in Addr : WelcomeEmailFails(a)
    \/ \E p \in Procs, id \in IDs : GetByIDCall(p, id)
    \/ \E p \in Procs : GetByIDReturn(p)
    \/ \E p \in Procs : ConcurrentMapAccess(p)
    \/ \E p \in Procs : Return(p)

SpecLock == Init /\ [][NextLock]_vars

(* SpecLockFair: SpecLock under a fair scheduler.  A started goroutine     *)
(* goes on running (weak fairness of each step of a call), and a goroutine *)
(* that waits in Lock gets the mutex when it is released again and again   *)
(* (strong fairness: sync.Mutex hands the mutex to a starving waiter).     *)
FairLock ==
    \A p \in Procs :
        /\ WF_vars(CreateNewUser(p))
        /\ WF_vars(CreateHash(p) \/ CreateHashFails(p))
        /\ SF_vars(CreateLock(p))
        /\ WF_vars(CreateDuplicate(p))
        /\ WF_vars(CreateInsertUser(p))
        /\ WF_vars(CreateInsertEmail(p))
        /\ WF_vars(CreateRespond(p))
        /\ WF_vars(GetByIDReturn(p))

SpecLockFair == Init /\ [][NextLock]_vars /\ FairLock

(* SpecQuery: one caller that creates and deletes users and lists them     *)
(* page by page.                                                           *)
NextQuery ==
    \/ \E p \in Callers, e \in ConcEmails : CreateCheck(p, e, NameAnn, PasswordOK)
    \/ \E p \in Callers : CreateNewUser(p)
    \/ \E p \in Callers : CreateHash(p)
    \/ \E p \in Callers : CreateHashFails(p)
    \/ \E p \in Callers : CreateStore(p)
    \/ \E p \in Callers : CreateRespond(p)
    \/ \E a \in Addr : WelcomeEmailSent(a)
    \/ \E a \in Addr : WelcomeEmailFails(a)
    \/ \E p \in Callers, id \in IDs : DeleteGet(p, id)
    \/ \E p \in Callers : DeleteStore(p)
    \/ \E p \in Callers, page \in ListPages, pageSize \in ListSizes :
          ListGet(p, page, pageSize)
    \/ \E p \in Callers : ListCount(p)
    \/ \E p \in Callers : Return(p)

SpecQuery == Init /\ [][NextQuery]_vars

(* SpecUse: one caller that executes every use case, one after the other.  *)
NextUse ==
    \/ \E p \in Callers, e \in ConcEmails : CreateCheck(p, e, NameAnn, PasswordOK)
    \/ \E p \in Callers : CreateNewUser(p)
    \/ \E p \in Callers : CreateHash(p)
    \/ \E p \in Callers : CreateHashFails(p)
    \/ \E p \in Callers : CreateStore(p)
    \/ \E p \in Callers : CreateRespond(p)
    \/ \E a \in Addr : WelcomeEmailSent(a)
    \/ \E a \in Addr : WelcomeEmailFails(a)
    \/ \E p \in Callers, id \in IDs : GetByIDExecute(p, id)
    \/ \E p \in Callers, e \in ConcEmails : GetByEmailExecute(p, e)
    \/ \E p \in Callers, id \in IDs, e \in ConcEmails : UpdateGet(p, id, e, NameBo)
    \/ \E p \in Callers : UpdateCheck(p)
    \/ \E p \in Callers : UpdateProfile(p)
    \/ \E p \in Callers : UpdateStore(p)
    \/ \E p \in Callers, id \in IDs : DeleteGet(p, id)
    \/ \E p \in Callers : DeleteStore(p)
    \/ \E p \in Callers, page \in ListPages, pageSize \in ListSizes :
          ListGet(p, page, pageSize)
    \/ \E p \in Callers : ListCount(p)
    \/ \E p \in Callers : Return(p)

SpecUse == Init /\ [][NextUse]_vars

(* SpecUpdate: one caller that creates, updates and reads users while time *)
(* passes; the Updates carry valid and invalid names and emails.           *)
UpdateEmails == ConcEmails \cup {EmailBad}
UpdateNames == {NameBo, NameShort}

NextUpdate ==
    \/ \E p \in Callers, e \in ConcEmails : CreateCheck(p, e, NameAnn, PasswordOK)
    \/ \E p \in Callers : CreateNewUser(p)
    \/ \E p \in Callers : CreateHash(p)
    \/ \E p \in Callers : CreateHashFails(p)
    \/ \E p \in Callers : CreateStore(p)
    \/ \E p \in Callers : CreateRespond(p)
    \/ \E a \in Addr : WelcomeEmailSent(a)
    \/ \E a \in Addr : WelcomeEmailFails(a)
    \/ \E p \in Callers, id \in IDs : GetByIDExecute(p, id)
    \/ \E p \in Callers, id \in IDs, e \in UpdateEmails, n \in UpdateNames :
          UpdateGet(p, id, e, n)
    \/ \E p \in Callers : UpdateCheck(p)
    \/ \E p \in Callers : UpdateProfile(p)
    \/ \E p \in Callers : UpdateStore(p)
    \/ \E p \in Callers : Return(p)
    \/ Tick

SpecUpdate == Init /\ [][NextUpdate]_vars

(* SpecListConc: two callers whose Create, Delete and List use cases       *)
(* interleave.                                                             *)
NextListConc ==
    \/ \E p \in Procs, e \in ConcEmails : CreateCheck(p, e, NameAnn, PasswordOK)
    \/ \E p \in Procs : CreateNewUser(p)
    \/ \E p \in Procs : CreateHash(p)
    \/ \E p \in Procs : CreateHashFails(p)
    \/ \E p \in Procs : CreateStore(p)
    \/ \E p \in Procs : CreateRespond(p)
    \/ \E a \in Addr : WelcomeEmailSent(a)
    \/ \E a \in Addr : WelcomeEmailFails(a)
    \/ \E p \in Procs, id \in IDs : DeleteGet(p, id)
    \/ \E p \in Procs : DeleteStore(p)
    \/ \E p \in Procs, page \in ListPages, pageSize \in ListSizes :
          ListGet(p, page, pageSize)
    \/ \E p \in Procs : ListCount(p)
    \/ \E p \in Procs : Return(p)

SpecListConc == Init /\ [][NextListConc]_vars

(***************************************************************************)
(* The properties.                                                         *)
(***************************************************************************)
\* the comparison of emails: without regard to case and surrounding spaces
Norm(s) == ToLower(TrimSpace(s))

\* the live records of store (h, us) whose email compares equal to e
LiveWithEmail(h, us, e) == {id \in DOMAIN us : Norm(h[us[id]].Email) = Norm(e)}

\* what a GetByID(id) returns in store (h, us): <<the value>>, or <<>> for not found
Fetched(h, us, id) ==
    LET r == GetByID(h, us, id, Addr) IN
    IF r.err = NoErr THEN <<r.heap[r.ptr]>> ELSE <<>>

\* what a GetByEmail(e) returns in store (h, em)
FetchedByEmail(h, em, e) ==
    LET r == GetByEmail(h, em, e, Addr) IN
    IF r.err = NoErr THEN <<r.heap[r.ptr]>> ELSE <<>>

\* this step is an assignment of caller p to the i-th value it holds
CallerMutates(p, i) ==
    /\ i \in DOMAIN held[p]
    /\ held' = held
    /\ store' = store
    /\ heap'[held[p][i].ptr] # heap[held[p][i].ptr]

ReadCalls == {"GetByID", "GetByEmail", "List"}

\* C1: in every reachable state no two live records have the same email,
\* compared without regard to case and surrounding spaces.
C1_UniqueEmail ==
    \A i, j \in DOMAIN users :
        i # j => Norm(heap[users[i]].Email) # Norm(heap[users[j]].Email)

\* C2: an assignment of a caller to a value that GetByID, GetByEmail or List
\* returned changes nothing a later GetByID or GetByEmail returns, and no other
\* value the caller holds.
C2_CopyIsolation ==
    [][\A p \in Procs, i \in 1..(MaxHeld + 1) :
          (CallerMutates(p, i) /\ held[p][i].from \in ReadCalls) =>
              /\ \A id \in IDs : Fetched(heap', users', id) = Fetched(heap, users, id)
              /\ \A e \in RawEmails :
                    FetchedByEmail(heap', emails', e) = FetchedByEmail(heap, emails, e)
              /\ \A j \in DOMAIN held[p] \ {i} :
                    heap'[held[p][j].ptr] = heap[held[p][j].ptr]]_vars

\* C2 happens: a caller holds two values that GetByID returned for one record,
\* has assigned to one of them, and the record and the other value are as before.
C2_Witness ==
    \E p \in Procs :
        /\ Len(held[p]) = 2
        /\ held[p][1].from = "GetByID" /\ held[p][2].from = "GetByID"
        /\ heap[held[p][1].ptr].ID = heap[held[p][2].ptr].ID
        /\ heap[held[p][1].ptr].Name # heap[held[p][2].ptr].Name
        /\ Fetched(heap, users, heap[held[p][1].ptr].ID) = <<heap[held[p][2].ptr]>>

\* C3: an assignment of a caller to the value Create returned, or to the
\* candidate it passed to Create, changes nothing a later GetByID or GetByEmail
\* returns.
C3_CreateReturnsCopy ==
    [][\A p \in Procs, i \in 1..(MaxHeld + 1) :
          (CallerMutates(p, i) /\ held[p][i].from \in {"Create", "NewUser"}) =>
              /\ \A id \in IDs : Fetched(heap', users', id) = Fetched(heap, users, id)
              /\ \A e \in RawEmails :
                    FetchedByEmail(heap', emails', e) = FetchedByEmail(heap, emails, e)]_vars

\* the email of the candidate caller p is about to hand to the store
CandidateEmail(p) == heap[user[p]].Email

\* this step is caller p's call of the store's Create
StoreCreateBy(p) == pc[p] = "c_store" /\ pc'[p] # "c_store"

\* this step is caller p's call of the store's Update
StoreUpdateBy(p) == pc[p] = "u_store" /\ pc'[p] # "u_store"

\* every stored record and both maps are as before the step
StoreUnchanged ==
    /\ store' = store
    /\ \A id \in DOMAIN users : heap'[users[id]] = heap[users[id]]

\* C4: when Creates race on one email, the store holds exactly one record with
\* that email once one of them has called the store, and a Create that calls
\* the store after another one's record of the same email was committed fails
\* with the creation error and stores nothing.
C4_RacingCreatesOneWinner ==
    [][\A p, q \in Procs :
          (p # q /\ StoreCreateBy(p) /\ pc[q] \in {"c_store", "c_resp", "done"}
                 /\ req[q].op = "create" /\ user[q] # NULL
                 /\ CandidateEmail(q) = CandidateEmail(p)) =>
              /\ Cardinality(LiveWithEmail(heap', users', CandidateEmail(p))) = 1
              /\ (created[q] # NULL /\ heap[created[q]].ID \in DOMAIN users
                  /\ heap[users[heap[created[q]].ID]].Email = CandidateEmail(p)) =>
                    /\ result'[p] = [err |-> MsgCreateFailed, resp |-> <<>>]
                    /\ StoreUnchanged]_vars

C6_IdentifiersNeverReused ==
    /\ [](\A id \in DOMAIN users : id < nextID /\ heap[users[id]].ID = id)
    /\ [][/\ nextID' >= nextID
          /\ \A id \in DOMAIN users' \ DOMAIN users :
                id = nextID /\ nextID' = nextID + 1
          /\ \A id \in DOMAIN users \cap DOMAIN users' :
                heap'[users'[id]].ID = heap[users[id]].ID]_vars

\* C6 happens: record 1 was deleted, and the Create that came after it has
\* just stored its record under id 2.
C6_Witness ==
    \E p \in Procs :
        /\ pc[p] = "c_resp"
        /\ heap[created[p]].ID = 2
        /\ DOMAIN users = {2}

\* C7: every stored record is in the email index under its email, and every
\* entry of the email index is a stored record whose email is the entry's key.
C7_IndexAgrees ==
    /\ \A id \in DOMAIN users :
          /\ heap[users[id]].Email \in DOMAIN emails
          /\ emails[heap[users[id]].Email] = users[id]
    /\ \A e \in DOMAIN emails :
          /\ heap[emails[e]].Email = e
          /\ \E id \in DOMAIN users : users[id] = emails[e]

\* C8: the store's Create of a candidate whose email a stored record has
\* fails, and leaves both maps, the allocator, every stored record and Count
\* as they were.
C8_DuplicateCreateRejected ==
    [][\A p \in Procs :
          (StoreCreateBy(p)
           /\ LiveWithEmail(heap, users, CandidateEmail(p)) # {}) =>
              /\ result'[p] = [err |-> MsgCreateFailed, resp |-> <<>>]
              /\ StoreUnchanged
              /\ Count(users') = Count(users)]_vars

\* C9: the Create use case, asked for an email a stored record has in
\* whatever letter case, answers with the already-used message and no response,
\* and leaves the store as it was.
C9_CreateUseCaseRejectsDuplicate ==
    [][\A p \in Procs :
          (pc[p] = "idle" /\ pc'[p] # "idle" /\ req'[p].op = "create"
           /\ LiveWithEmail(heap, users, req'[p].email) # {}) =>
              /\ pc'[p] = "done"
              /\ result'[p] = [err |-> MsgEmailExists, resp |-> <<>>]
              /\ StoreUnchanged]_vars

\* C10: the store's Update that would give a record an email another stored
\* record has fails with an error of the update, no response, and every stored
\* record (email, name, updatedAt) as it was.
C10_UpdateToTakenEmailRejected ==
    [][\A p \in Procs :
          (StoreUpdateBy(p)
           /\ heap[user[p]].ID \in DOMAIN users
           /\ heap[users[heap[user[p]].ID]].Email # CandidateEmail(p)
           /\ LiveWithEmail(heap, users, CandidateEmail(p)) \ {heap[user[p]].ID} # {}) =>
              /\ result'[p].err \in {MsgEmailUsed, MsgUpdateFailed}
              /\ result'[p].resp = <<>>
              /\ StoreUnchanged]_vars

\* C11: an Update whose requested email is, once normalized, the email the
\* record already has is not rejected as a duplicate: it passes the email
\* check of the use case and goes on to the profile update.
C11_OwnEmailNotDuplicate ==
    [][\A p \in Procs :
          (pc[p] = "u_check" /\ pc'[p] # "u_check"
           /\ req[p].id \in DOMAIN users
           /\ Norm(req[p].email) = Norm(heap[users[req[p].id]].Email)) =>
              /\ pc'[p] = "u_profile"
              /\ result'[p].err # MsgEmailUsed]_vars

\* the record the store holds for the id of the i-th value caller p holds
StoredFor(h, us, p, i) == h[us[heap[held[p][i].ptr].ID]]

\* C12: a successful Update of the store leaves the record's id and createdAt
\* as they were, and sets its updatedAt to the time of the Update, which is
\* not before the updatedAt it had.
C12_UpdateKeepsIdentity ==
    [][\A p \in Procs, i \in 1..(MaxHeld + 1) :
          ClientUpdate(p, i) =>
              /\ StoredFor(heap', users', p, i).ID = StoredFor(heap, users, p, i).ID
              /\ StoredFor(heap', users', p, i).Created
                    = StoredFor(heap, users, p, i).Created
              /\ StoredFor(heap', users', p, i).Updated
                    >= StoredFor(heap, users, p, i).Updated
              /\ StoredFor(heap', users', p, i).Updated = now]_vars

\* C12 happens: a stored record was updated, with a new name, after it was
\* created.
C12_Witness ==
    \E id \in DOMAIN users :
        /\ heap[users[id]].Name = TrimSpace(NameBo)
        /\ heap[users[id]].Updated > heap[users[id]].Created

\* C13: every user, stored or held, has updatedAt >= createdAt; a record is
\* stored with updatedAt = createdAt when its user was just constructed; and
\* UpdateUserProfile, ChangePassword and the store's Update each set updatedAt
\* to the time they run at.
C13_UpdatedNotBeforeCreated ==
    /\ [](\A a \in DOMAIN heap : heap[a].Updated >= heap[a].Created)
    /\ [][\A id \in DOMAIN users' \ DOMAIN users :
            heap'[users'[id]].Updated = heap'[users'[id]].Created]_vars
    /\ [][\A p \in Procs, i \in 1..(MaxHeld + 1) :
            /\ ClientUpdateProfile(p, i, NameBo, heap[held[p][i].ptr].Email) =>
                  heap'[held[p][i].ptr].Updated = now
            /\ ClientChangePassword(p, i, PasswordNew) =>
                  heap'[held[p][i].ptr].Updated = now
            /\ ClientUpdate(p, i) =>
                  StoredFor(heap', users', p, i).Updated = now]_vars

\* C13 happens: a user's password was changed after the user was created.
C13_Witness ==
    \E a \in DOMAIN heap :
        heap[a].Password = PasswordNew /\ heap[a].Updated > heap[a].Created

\* C14: a successful Update of the store leaves the primary map as it was (the
\* record keeps its slot), the slot has the new name and email, and no value a
\* caller obtained before changes.
C14_UpdateInPlaceOnly ==
    [][\A p \in Procs, i \in 1..(MaxHeld + 1) :
          ClientUpdate(p, i) =>
              /\ users' = users
              /\ StoredFor(heap', users, p, i).Name = heap[held[p][i].ptr].Name
              /\ StoredFor(heap', users, p, i).Email = heap[held[p][i].ptr].Email
              /\ \A q \in Procs : \A j \in DOMAIN held[q] :
                    heap'[held[q][j].ptr] = heap[held[q][j].ptr]]_vars

\* C15: after a successful Delete of id, GetByID(id) finds nothing, Count is
\* one less, the email the record had is not in the email index, and every
\* other record has its slot and its value as before.
C15_DeleteRemovesRecord ==
    [][\A p \in Procs :
          (pc[p] = "d_delete" /\ pc'[p] = "done" /\ result'[p].err = NoErr) =>
              LET id == req[p].id IN
              /\ id \in DOMAIN users
              /\ Fetched(heap', users', id) = <<>>
              /\ Count(users') = Count(users) - 1
              /\ heap[users[id]].Email \notin DOMAIN emails'
              /\ \A j \in DOMAIN users \ {id} :
                    /\ j \in DOMAIN users'
                    /\ users'[j] = users[j]
                    /\ heap'[users'[j]] = heap[users[j]]]_vars

\* C15 happens: a Delete has just succeeded and another record is still stored.
C15_Witness ==
    \E p \in Procs :
        /\ pc[p] = "done" /\ req[p].op = "delete" /\ result[p].err = NoErr
        /\ req[p].id \notin DOMAIN users
        /\ users # <<>>

\* the ids of S in ascending order
RECURSIVE Ascending(_)
Ascending(S) ==
    IF S = {} THEN <<>>
    ELSE LET m == CHOOSE x \in S : \A y \in S : x <= y
         IN <<m>> \o Ascending(S \ {m})

\* the ids List(limit, offset) is to return from the live ids S
PageOf(S, limit, offset) ==
    SubSeq(Ascending(S), offset + 1,
           IF offset + limit < Cardinality(S) THEN offset + limit ELSE Cardinality(S))

\* C16: List(limit, offset) returns the live records in ascending order of
\* id, without the first offset of them and at most limit of them, and so
\* none when offset is at least their number.
C16_ListAscendingPage ==
    [][\A p \in Procs, limit \in 1..(MaxHeld + 1), offset \in 0..(MaxID + 1) :
          ClientListPage(p, limit, offset) =>
              [j \in DOMAIN held'[p] |-> heap'[held'[p][j].ptr].ID]
                  = PageOf(DOMAIN users, limit, offset)]_vars

\* C17: a caller that holds the store's lock for a mutation is alone inside
\* the store (no other caller is inside any store operation, read or write),
\* and a caller inside a read finds every stored record under its email in
\* the email index.
C17_ReadersWriterExclusion ==
    /\ \A p \in Procs :
          pc[p] \in WriteSteps =>
              \A q \in Procs \ {p} : pc[q] \notin WriteSteps \cup ReadSteps
    /\ (\E q \in Procs : pc[q] \in ReadSteps) =>
          \A id \in DOMAIN users :
              /\ heap[users[id]].Email \in DOMAIN emails
              /\ emails[heap[users[id]].Email] = users[id]

\* C18: under fair scheduling every started store operation and every
\* started use case returns a result or an error: a caller that is not idle
\* reaches its return.
C18_EveryCallReturns ==
    \A p \in Procs : (pc[p] \notin {"idle", "done"}) ~> (pc[p] = "done")

\* C19: no stored password is a request's plaintext: the record a Create use
\* case stores holds the hash of the request's password, a stored password
\* never changes afterwards, and a request whose hashing fails ends with the
\* hashing error and nothing stored.
C19_StoredPasswordIsHashed ==
    /\ [](\A id \in DOMAIN users : heap[users[id]].Password \notin RawPasswords)
    /\ [][\A p \in Procs :
            /\ (StoreCreateBy(p) /\ pc'[p] = "c_resp") =>
                  heap'[users'[nextID]].Password = Hash(req[p].password)
            /\ CreateHashFails(p) =>
                  StoreUnchanged /\ result'[p].err = MsgHashFailed
            /\ (result[p].err = MsgHashFailed) => StoreUnchanged]_vars
    /\ [][\A id \in DOMAIN users \cap DOMAIN users' :
            heap'[users'[id]].Password = heap[users[id]].Password]_vars

\* a record is stored with the hash of its request's password, and a later
\* request has ended with the hashing error
C19_Witness ==
    \E p \in Procs :
        /\ pc[p] = "done"
        /\ result[p].err = MsgHashFailed
        /\ \E id \in DOMAIN users : heap[users[id]].Password = Hash(PasswordOK)

\* C20: the Create use case runs the existence check, the validation, the
\* hashing and the store's Create in this order: NewUser is reached only from
\* a check that returned false, the hashing only from a validation that
\* passed, the store's Create only from a hashing that succeeded, a record is
\* stored only by that call, and a request that failed at an earlier step
\* leaves the store as it was.
C20_CreateStepsInOrder ==
    [][/\ \A p \in Procs :
            /\ (pc'[p] = "c_new" /\ pc[p] # "c_new") =>
                  pc[p] = "idle" /\ ~isEmailTaken(emails, req'[p].email)
            /\ (pc'[p] = "c_hash" /\ pc[p] # "c_hash") =>
                  /\ pc[p] = "c_new"
                  /\ NewUserErr(req[p].email, req[p].name, req[p].password) = NoErr
            /\ (pc'[p] = "c_store" /\ pc[p] # "c_store") =>
                  /\ pc[p] = "c_hash"
                  /\ heap'[user[p]].Password = Hash(req[p].password)
            /\ StoreCreateBy(p) =>
                  /\ ~isEmailTaken(emails, req[p].email)
                  /\ NewUserErr(req[p].email, req[p].name, req[p].password) = NoErr
                  /\ heap[user[p]].Password = Hash(req[p].password)
            /\ (req'[p].op = "create" /\ result'[p].err \notin {NoErr, MsgCreateFailed})
                  => StoreUnchanged
       /\ (nextID' # nextID \/ DOMAIN users' \ DOMAIN users # {}) =>
             \E p \in Procs : StoreCreateBy(p)]_vars

\* the store's Create has just been called by a request that passed the
\* check, the validation and the hashing, and has stored its record
C20_Witness ==
    \E p \in Procs :
        /\ pc[p] = "c_resp"
        /\ req[p].op = "create"
        /\ heap[created[p]].Email = Norm(req[p].email)
        /\ heap[created[p]].Password = Hash(req[p].password)

\* the request r is a creation request that NewUser rejects
FailsValidation(r) ==
    r.op = "create" /\ NewUserErr(r.email, r.name, r.password) # NoErr

NotificationEnds == pending' # pending /\ pending' \subseteq pending

\* C22: the welcome notification never affects the Create use case's result:
\* a Create whose store write succeeded returns the success response built
\* from the created record, with the record stored and the notification still
\* to run (the response does not wait for it), and the end of a notification,
\* sent or failed, changes no caller's result or position and nothing in the
\* store.
C22_NotificationNeverAffectsResult ==
    [][/\ \A p \in Procs :
            (pc[p] = "c_resp" /\ pc'[p] # "c_resp") =>
                /\ pc'[p] = "done"
                /\ result'[p] = [err |-> NoErr,
                                 resp |-> <<CreateUserResponse(heap[created[p]])>>]
                /\ created[p] \in pending'
                /\ heap[created[p]].ID \in DOMAIN users'
                /\ StoreUnchanged
       /\ NotificationEnds =>
             /\ result' = result
             /\ pc' = pc
             /\ StoreUnchanged]_vars

\* a Create has returned its success response, its record is stored and its
\* notification has not run; the notification of an earlier Create has ended
C22_Witness ==
    \E p \in Procs :
        /\ pc[p] = "done"
        /\ result[p].err = NoErr
        /\ req[p].op = "create"
        /\ created[p] \in pending
        /\ heap[created[p]].ID = 2
        /\ 2 \in DOMAIN users
        /\ Cardinality(pending) = 1

\* this step starts the welcome-mail goroutine for the record at address a
Dispatched(a) == a \in pending' \ pending

\* C23: the notification is dispatched only after the commit: a goroutine is
\* started only by a caller whose store Create has just succeeded, for the
\* record that Create returned, which is stored under the last id given out
\* and has had no notification before; a mail is delivered only for a record
\* whose goroutine was started; and a step that ends a request with an error
\* starts none.
C23_NotificationOnlyAfterCommit ==
    [][/\ \A a \in Addr :
            Dispatched(a) =>
                \E p \in Procs :
                    /\ pc[p] = "c_resp"
                    /\ a = created[p]
                    /\ heap[a].ID = nextID - 1
                    /\ heap[a].ID \in DOMAIN users
                    /\ users[heap[a].ID] = a
                    /\ heap[a].ID \notin sent
                    /\ pending' = pending \cup {a}
       /\ \A id \in sent' \ sent :
            /\ \E a \in pending \ pending' : heap[a].ID = id
            /\ id < nextID
       /\ \A p \in Procs :
            (pc[p] # "done" /\ pc'[p] = "done" /\ result'[p].err # NoErr) =>
                pending' = pending]_vars

\* the mail of the second record created was delivered
C23_Witness ==
    /\ 2 \in sent
    /\ pending = {}

\* C24: a Delete use case whose id is absent when the delete is attempted
\* ends with the not-found message, be it at the existence check (and then
\* DeleteById is not called: the store is left as it is) or at DeleteById,
\* after another Delete of the same id came between the two.
C24_DeleteOfAbsentIsNotFound ==
    [][\A p \in Procs :
          /\ (pc[p] = "idle" /\ req'[p].op = "delete"
                 /\ req'[p].id \notin DOMAIN users) =>
                /\ pc'[p] = "done"
                /\ result'[p].err = MsgNotFound
                /\ StoreUnchanged
          /\ (pc[p] = "d_delete" /\ pc'[p] # "d_delete"
                 /\ req[p].id \notin DOMAIN users) =>
                result'[p].err = MsgNotFound]_vars

\* the messages the use cases make themselves
BusinessMessages ==
    {MsgEmailExists, MsgHashFailed, MsgCreateFailed, MsgNotFound, MsgEmailUsed,
     MsgUpdateFailed, MsgDeleteFailed}

\* the error values the entity's constructor and mutator and the store raise
InternalErrors ==
    ({NewUserErr(e, n, w) : e \in RawEmails, n \in RawNames, w \in RawPasswords}
        \cup {UpdateUserProfileErr(n, e) : n \in RawNames, e \in RawEmails}
        \cup {ErrEmailUsed, ErrUserNotFound}) \ {NoErr}

\* C25: every error a use case returns is one of its own business messages,
\* and never the error value the entity or the store raised.
C25_ErrorsAreBusinessMessages ==
    \A p \in Procs :
        (pc[p] = "done" /\ result[p].err # NoErr) =>
            /\ result[p].err \in BusinessMessages
            /\ result[p].err \notin InternalErrors

\* ceil(total / pageSize) for pageSize >= 1: the least n with n * pageSize >= total
CeilDiv(total, pageSize) ==
    CHOOSE n \in 0..total :
        n * pageSize >= total /\ \A m \in 0..(n - 1) : m * pageSize < total

\* the ids of the records of a response
ResponseIDs(resp) == [i \in DOMAIN resp.Users |-> resp.Users[i].ID]

\* C26: the List use case takes page 1 for page 0 and pageSize 10 for
\* pageSize 0, asks the store for limit = pageSize records after the first
\* (page - 1) * pageSize, and reports totalPages = ceil(total / pageSize):
\* 0 for the empty store, else the least n with n * pageSize >= total.
C26_ListDefaultsAndTotalPages ==
    [][\A p \in Procs :
          /\ \A page \in ListPages, pageSize \in ListSizes :
                ListGet(p, page, pageSize) =>
                    LET Page == IF page = 0 THEN 1 ELSE page
                        PageSize == IF pageSize = 0 THEN 10 ELSE pageSize
                    IN /\ req'[p].page = Page
                       /\ req'[p].pageSize = PageSize
                       /\ \E seq \in Orders(DOMAIN users) :
                             [i \in DOMAIN held'[p] |-> heap'[held'[p][i].ptr].ID]
                                 = SubSeq(seq, (Page - 1) * PageSize + 1,
                                          IF Page * PageSize < Len(seq)
                                          THEN Page * PageSize ELSE Len(seq))
          /\ (pc[p] = "l_count" /\ pc'[p] = "done") =>
                LET resp == result'[p].resp[1] IN
                /\ result'[p].err = NoErr
                /\ resp.Page = req[p].page
                /\ resp.PageSize = req[p].pageSize
                /\ resp.Total = Count(users)
                /\ ResponseIDs(resp) = [i \in DOMAIN held[p] |-> heap[held[p][i].ptr].ID]
                /\ resp.TotalPages = CeilDiv(resp.Total, resp.PageSize)]_vars

\* C27: a Create use case with a valid request whose email no live record
\* holds is not rejected as existing and, its hashing done, returns a
\* response with the normalized request email and a non-zero id; the first
\* Create that succeeds gets id 1.
C27_FreshCreateSucceeds ==
    [][\A p \in Procs :
          /\ (pc[p] = "idle" /\ req'[p].op = "create" /\ ~FailsValidation(req'[p])
                 /\ LiveWithEmail(heap, users, req'[p].email) = {}) =>
                pc'[p] = "c_new"
          /\ (pc[p] = "c_store" /\ pc'[p] # "c_store"
                 /\ LiveWithEmail(heap, users, req[p].email) = {}) =>
                /\ pc'[p] = "c_resp"
                /\ nextID = 1 => heap'[created'[p]].ID = 1
          /\ (pc[p] = "c_resp" /\ pc'[p] = "done") =>
                /\ result'[p].err = NoErr
                /\ result'[p].resp[1].Email = Norm(req[p].email)
                /\ result'[p].resp[1].ID # 0]_vars

\* the credentials a stored record may hold
Credentials == {Hash(w) : w \in RawPasswords \cup {PasswordNew}}

\* the objects of h, each with the credential w
WithCredential(h, w) == [a \in DOMAIN h |-> [h[a] EXCEPT !.Password = w]]

\* the DTO x has no credential field
NoCredentialField(x) ==
    /\ "Password" \notin DOMAIN x
    /\ "Users" \in DOMAIN x =>
          \A i \in DOMAIN x.Users : "Password" \notin DOMAIN x.Users[i]

\* C28: no response of a use case carries the credential: no response has a
\* credential field, and the response each use case returns is the one it
\* returns when the stored credentials are any others.
C28_ResponsesIgnoreCredential ==
    /\ [](\A p \in Procs : \A i \in DOMAIN result[p].resp :
             NoCredentialField(result[p].resp[i]))
    /\ [][\A p \in Procs, w \in Credentials :
            /\ (pc[p] = "c_resp" /\ pc'[p] = "done") =>
                  result'[p].resp
                      = <<CreateUserResponse(WithCredential(heap, w)[created[p]])>>
            /\ (pc[p] = "u_store" /\ pc'[p] = "done" /\ result'[p].err = NoErr) =>
                  result'[p].resp
                      = <<UpdateUserResponse(WithCredential(heap', w)[user[p]])>>
            /\ (pc[p] = "idle" /\ req'[p].op = "get_id") =>
                  result'[p] = ExecuteByID(WithCredential(heap, w), users,
                                           req'[p].id, ProcAddr(p))
            /\ (pc[p] = "idle" /\ req'[p].op = "get_email") =>
                  result'[p] = ExecuteByEmail(WithCredential(heap, w), emails,
                                              req'[p].email, ProcAddr(p))
            /\ (pc[p] = "l_count" /\ pc'[p] = "done") =>
                  result'[p].resp[1].Users
                      = [i \in DOMAIN held[p] |->
                            GetUserResponse(WithCredential(heap, w)[held[p][i].ptr])]]_vars

\* the List use case has returned a page with a record whose stored
\* credential is a hash, after a Get use case and an Update have answered
C28_Witness ==
    \E p \in Procs :
        /\ pc[p] = "done"
        /\ req[p].op = "list"
        /\ result[p].resp[1].Users # <<>>
        /\ \E id \in DOMAIN users :
              /\ heap[users[id]].Password = Hash(PasswordOK)
              /\ heap[users[id]].Name = TrimSpace(NameBo)

\* this step is a step of caller p's use case
StepOf(p) == pc'[p] # pc[p]

\* C29: a use case that returns an error leaves the store as it was: the
\* step that returns the error changes no record, no entry of the email
\* index and not the next id, and a step of a use case that does change the
\* store is followed by the success of that use case only.
C29_FailedUseCaseLeavesStore ==
    [][\A p \in Procs :
          /\ (StepOf(p) /\ pc'[p] = "done" /\ result'[p].err # NoErr) =>
                StoreUnchanged
          /\ (StepOf(p) /\ ~StoreUnchanged) =>
                \/ pc'[p] = "c_resp"
                \/ pc'[p] = "done" /\ result'[p].err = NoErr
          /\ (pc[p] = "c_resp" /\ StepOf(p)) =>
                pc'[p] = "done" /\ result'[p].err = NoErr]_vars

\* an Update has been refused for an email another record holds, with two
\* records stored
C29_Witness ==
    \E p \in Procs :
        /\ pc[p] = "done"
        /\ req[p].op = "update"
        /\ result[p].err = MsgEmailUsed
        /\ Cardinality(DOMAIN users) = 2

\* this step is a call of the store's Create by the direct caller p, with
\* the candidate of NewUser first in what p holds afterwards
DirectCreateBy(p) ==
    /\ held[p] = <<>>
    /\ held'[p] # <<>>
    /\ held'[p][1].from = "NewUser"

\* C30: a store Create refused for a duplicate email takes no id and writes
\* none into the caller's candidate, and a Create that succeeds commits its
\* record under the next id: the ids of the records created are 1, 2, ...,
\* n in the order of the commits, without a gap.
C30_FailedCreateTakesNoID ==
    /\ [](DOMAIN users = 1..(nextID - 1))
    /\ [][\A p \in Procs :
            DirectCreateBy(p) =>
                IF Len(held'[p]) = 1
                THEN /\ nextID' = nextID
                     /\ users' = users
                     /\ emails' = emails
                     /\ heap'[held'[p][1].ptr].ID = 0
                ELSE /\ nextID' = nextID + 1
                     /\ DOMAIN users' = DOMAIN users \cup {nextID}
                     /\ users'[nextID] = held'[p][2].ptr
                     /\ heap'[held'[p][2].ptr].ID = nextID
                     /\ heap'[held'[p][1].ptr].ID = nextID]_vars

\* a Create has been refused for a duplicate email after one record was
\* committed: the candidate has no id and the next id is still 2
C30_Witness ==
    \E p \in Procs :
        /\ Len(held[p]) = 1
        /\ held[p][1].from = "NewUser"
        /\ heap[held[p][1].ptr].ID = 0
        /\ heap[held[p][1].ptr].Email \in DOMAIN emails
        /\ DOMAIN users = {1}
        /\ nextID = 2

\* what GetByID of id gives caller p in this state: the copy's fields
ReadBack(p, id) ==
    LET r == GetByID(heap, users, id, ProcAddr(p)) IN r.heap[r.ptr]

\* C31: once an Update use case has returned its response, GetByID of that
\* id gives the name, the email and the updatedAt of the response.
C31_UpdateResponseIsStoredState ==
    \A p \in Procs :
        (pc[p] = "done" /\ req[p].op = "update" /\ result[p].err = NoErr) =>
            /\ req[p].id \in DOMAIN users
            /\ ReadBack(p, req[p].id).Name = result[p].resp[1].Name
            /\ ReadBack(p, req[p].id).Email = result[p].resp[1].Email
            /\ ReadBack(p, req[p].id).Updated = result[p].resp[1].Updated

\* C32: the response of the List use case holds at most pageSize users and
\* at most Total users, whatever other callers' Creates and Deletes did
\* between its List and its Count.
C32_ListedWithinPageAndTotal ==
    \A p \in Procs :
        (pc[p] = "done" /\ req[p].op = "list" /\ result[p].err = NoErr) =>
            /\ Len(result[p].resp[1].Users) <= result[p].resp[1].PageSize
            /\ Len(result[p].resp[1].Users) <= result[p].resp[1].Total

\* this step is the Delete use case of caller p returning success
DeletedBy(p) == pc[p] = "d_delete" /\ pc'[p] = "done" /\ result'[p].err = NoErr

\* this step is the first step of a Create use case of caller p
CreateCheckBy(p) == pc[p] = "idle" /\ pc'[p] # "idle" /\ req'[p].op = "create"

\* C33: after a Delete the email of the deleted record is free (no Create is
\* refused for it) until a Create commits a record with it; a Create whose
\* email is free is not refused as existing and the store commits it under
\* the next id, which is above every id assigned before; and GetByID of
\* the deleted id finds nothing, then and ever after, as the id is below
\* every id assigned later.
C33_DeletedEmailIsFree ==
    /\ [](\A id \in DOMAIN users : id < nextID)
    /\ [][/\ nextID' >= nextID
          /\ \A p \in Procs :
                DeletedBy(p) =>
                    /\ ~isEmailTaken(emails', heap[users[req[p].id]].Email)
                    /\ Fetched(heap', users', req[p].id) = <<>>
                    /\ req[p].id < nextID'
          /\ \A e \in DOMAIN emails' \ DOMAIN emails :
                \E p \in Procs : StoreCreateBy(p) /\ CandidateEmail(p) = e
          /\ \A p \in Procs :
                (CreateCheckBy(p) /\ ~isEmailTaken(emails, req'[p].email)) =>
                    pc'[p] = "c_new"
          /\ \A p \in Procs :
                (StoreCreateBy(p) /\ ~isEmailTaken(emails, CandidateEmail(p))) =>
                    /\ pc'[p] = "c_resp"
                    /\ heap'[created'[p]].ID = nextID
                    /\ heap'[created'[p]].Email = CandidateEmail(p)
                    /\ users'[nextID] = created'[p]
                    /\ nextID' = nextID + 1
          /\ \A id \in DOMAIN users' \ DOMAIN users : id = nextID]_vars

\* record 1 was deleted while its welcome mail was still to be sent, and a
\* Create with the email it had has just been committed under id 2
C33_Witness ==
    \E p \in Procs, a \in pending :
        /\ heap[a].ID = 1
        /\ 1 \notin DOMAIN users
        /\ pc[p] = "c_resp"
        /\ heap[created[p]].ID = 2
        /\ heap[created[p]].Email = heap[a].Email

\* the heap h holds every stored record as the store holds it now
KeepsRecords(h) == \A id \in DOMAIN users : h[users[id]] = heap[users[id]]

\* the use cases that only read
ReadOps == {"get_id", "get_email", "list"}

\* C34: the reads leave the store as it is.  In every state in which a
\* caller may call, GetByID, GetByEmail and List, found or not found, leave
\* every stored record as it is (they return copies; ExistsByEmail and
\* Count return a value only); and every step of a Get or List use case
\* leaves the primary map, the email index, the next id and every stored
\* record unchanged.
C34_ReadsLeaveStore ==
    /\ [](\A p \in Procs :
            (pc[p] = "idle" /\ held[p] = <<>>) =>
                /\ \A id \in 0..(MaxID + 1) :
                      KeepsRecords(GetByID(heap, users, id, ProcAddr(p)).heap)
                /\ \A e \in RawEmails :
                      KeepsRecords(GetByEmail(heap, emails, e, ProcAddr(p)).heap)
                /\ \A seq \in Orders(DOMAIN users) :
                      /\ KeepsRecords(List(heap, users, seq, ProcAddr(p)).heap)
                      /\ \A limit \in 1..MaxHeld, offset \in 0..MaxID :
                            KeepsRecords(ListPage(heap, users, seq, limit, offset,
                                                  ProcAddr(p)).heap))
    /\ [][\A p \in Procs :
            (StepOf(p) /\ (req[p].op \in ReadOps \/ req'[p].op \in ReadOps)
                       /\ pc[p] # "done") =>
                StoreUnchanged]_vars

\* a Get by id has answered not found in a store that holds a record
C34_Witness ==
    \E p \in Procs :
        /\ pc[p] = "done"
        /\ req[p].op = "get_id"
        /\ result[p].err = MsgNotFound
        /\ users # <<>>

\* C35: UpdateUserProfile and ChangePassword assign nothing when they
\* return an error.  For the user a caller has fetched, every name, email
\* and password, a call that returns an error leaves the user with every
\* field, updatedAt too, as it was, and a call of UpdateUserProfile that
\* returns no error had a valid name and a valid email; and the Update use
\* case whose UpdateUserProfile fails returns that error with its user
\* untouched.
C35_MutatorsAllOrNothing ==
    /\ [](\A p \in Procs :
            pc[p] = "u_profile" =>
                /\ \A n \in RawNames, e \in RawEmails :
                      LET r == UpdateUserProfileResult(heap[user[p]], n, e, MaxTime + 1) IN
                      IF r.err # NoErr
                      THEN r.user = heap[user[p]]
                      ELSE validateName(n) = NoErr /\ validateEmail(e) = NoErr
                /\ \A w \in RawPasswords :
                      LET r == ChangePasswordResult(heap[user[p]], w, MaxTime + 1) IN
                      r.err # NoErr => r.user = heap[user[p]])
    /\ [][\A p \in Procs :
            (pc[p] = "u_profile" /\ pc'[p] = "done") =>
                /\ result'[p].err = UpdateUserProfileErr(req[p].name, req[p].email)
                /\ result'[p].err # NoErr
                /\ heap'[user[p]] = heap[user[p]]]_vars

\* an Update whose name is valid and whose email is not has returned the
\* error at a later time than the user's updatedAt: the user still has the
\* name and the updatedAt it had
C35_Witness ==
    \E p \in Procs :
        /\ pc[p] = "done"
        /\ req[p].op = "update"
        /\ validateName(req[p].name) = NoErr
        /\ result[p].err = validateEmail(req[p].email)
        /\ result[p].err # NoErr
        /\ heap[user[p]].Name # TrimSpace(req[p].name)
        /\ heap[user[p]].Updated < now

====
